---- MODULE Spec2Model ----
(***************************************************************************)
(* ETSformer-pytorch (etsformer_pytorch/etsformer_pytorch.py): the FFT     *)
(* causal convolution conv1d_fft, multi-head exponential smoothing         *)
(* attention (MHESA), FrequencyAttention, the Level module and the encoder *)
(* assembly of ETSFormer.                                                  *)
(*                                                                         *)
(* Arithmetic is exact.  A real number is a normalised rational            *)
(* <<num, den>>.  A complex number of a length-R transform is an element   *)
(* of the cyclotomic ring Q[z]/(z^R - 1), z = exp(2 pi i / R): a vector of *)
(* R integer coefficients over one denominator.  Two such vectors denote   *)
(* the same complex number iff they agree modulo the R-th cyclotomic       *)
(* polynomial, which is how real parts and magnitudes are read back.       *)
(***************************************************************************)
EXTENDS Integers, Sequences, FiniteSets, TLC

VARIABLES
    pc,         \* the statement the running call has reached
    x,          \* the tensor named x in the running function
    weights,    \* the smoothing kernel
    f_x,        \* conv1d_fft: spectrum of x
    f_weight,   \* conv1d_fft: spectrum of the kernel
    f_v_weight, \* conv1d_fft: the product spectrum
    out,        \* conv1d_fft: its result so far
    self,       \* the module the call runs on: hyperparameters and parameters
    series,     \* the argument the call was made with
    naive,      \* MHESA.forward's flag
    alpha,      \* the decay coefficient after the sigmoid
    output,     \* the running forward's result so far
    freqs,      \* FrequencyAttention: spectrum of x
    amp,        \* FrequencyAttention: amplitudes
    topk_amp_indices,   \* FrequencyAttention: the indices topk returned
    topk_freqs, \* FrequencyAttention: the scattered spectrum
    calls,      \* FrequencyAttention: how many times it has been applied
    z,          \* ETSFormer.forward: the latent series
    ind,        \* ETSFormer.forward: encoder layers run so far
    latent_seasonal,    \* ETSFormer.forward: the last FrequencyAttention output
    latent_growth,      \* ETSFormer.forward: the last MHESA output
    num_steps_forecast, \* ETSFormer.forward's argument
    level       \* Level.forward: its argument x and its locals, last call

vars == <<pc, x, weights, f_x, f_weight, f_v_weight, out, self, series, naive,
          alpha, output, freqs, amp, topk_amp_indices, topk_freqs, calls,
          z, ind, latent_seasonal, latent_growth, num_steps_forecast, level>>

convVars == <<f_x, f_weight, f_v_weight, out>>
mhesaVars == <<self, series, naive, alpha, output>>
freqVars == <<freqs, amp, topk_amp_indices, topk_freqs, calls>>

etsVars == <<z, ind, latent_seasonal, latent_growth, num_steps_forecast, level>>

InitEtsUnused ==
    /\ z = << >>
    /\ ind = 0
    /\ latent_seasonal = << >>
    /\ latent_growth = << >>
    /\ num_steps_forecast = 0
    /\ level = << >>

InitFreqUnused ==
    /\ freqs = << >>
    /\ amp = << >>
    /\ topk_amp_indices = << >>
    /\ topk_freqs = << >>
    /\ calls = 0

(***************************************************************************)
(* Bounds of the model.                                                    *)
(***************************************************************************)
MaxN == 4

SignalVals == {0, 1}
KernelVals == {1, 2}

\* a sequence given by its entries, built once
Tuple(f) == f \o << >>

\* w, with v computed first: the statements of a function run in order
After(v, w) == IF v = v THEN w ELSE w

(***************************************************************************)
(* Exact rationals.                                                        *)
(***************************************************************************)
Abs(i) == IF i < 0 THEN -i ELSE i

RECURSIVE Gcd(_, _)
Gcd(a, b) == IF b = 0 THEN a ELSE Gcd(b, a % b)

Lcm(a, b) == (a \div Gcd(a, b)) * b

Q(n, d) ==
    LET g == Gcd(Abs(n), Abs(d))
    IN  IF d < 0 THEN <<(-n) \div g, (-d) \div g>> ELSE <<n \div g, d \div g>>

QInt(i) == <<i, 1>>
QNeg(a) == <<-a[1], a[2]>>

QAdd(a, b) ==
    LET l == Lcm(a[2], b[2])
    IN  Q(a[1] * (l \div a[2]) + b[1] * (l \div b[2]), l)

QSub(a, b) == QAdd(a, QNeg(b))

QMul(a, b) ==
    LET g1 == Gcd(Abs(a[1]), b[2])
        g2 == Gcd(Abs(b[1]), a[2])
    IN  <<(a[1] \div g1) * (b[1] \div g2), (a[2] \div g2) * (b[2] \div g1)>>

RECURSIVE IPow(_, _)
IPow(i, k) == IF k = 0 THEN 1 ELSE i * IPow(i, k - 1)

\* a is in lowest terms, and so are its powers
QPow(a, k) == <<IPow(a[1], k), IPow(a[2], k)>>

RECURSIVE ISum(_, _)
ISum(f, k) == IF k = 0 THEN 0 ELSE f[k] + ISum(f, k - 1)

\* the least common multiple of l and ds[1] .. ds[k]
RECURSIVE LcmAll(_, _, _)
LcmAll(ds, k, l) ==
    IF k = 0 \/ l = 0 THEN l ELSE LcmAll(ds, k - 1, Lcm(l, ds[k]))

QSum(f, k) ==
    LET s == Tuple([t \in 1..k |-> f[t]])
        l == LcmAll(Tuple([t \in 1..k |-> s[t][2]]), k, 1)
    IN  Q(ISum([t \in 1..k |-> s[t][1] * (l \div s[t][2])], k), l)

(***************************************************************************)
(* Cyclotomic polynomials: Phi(n) = (z^n - 1) / prod of Phi(d), d | n,     *)
(* d < n.  A polynomial is the sequence of its coefficients, constant      *)
(* term first.                                                             *)
(***************************************************************************)
RECURSIVE PolyRem(_, _)
PolyRem(a, m) ==
    IF Len(a) < Len(m) THEN a
    ELSE LET top == a[Len(a)]
             sh  == Len(a) - Len(m)
             a2  == Tuple([i \in 1..(Len(a) - 1) |->
                        IF i > sh THEN a[i] - top * m[i - sh] ELSE a[i]])
         IN  PolyRem(a2, m)

RECURSIVE PolyQuo(_, _)
PolyQuo(a, m) ==
    IF Len(a) < Len(m) THEN << >>
    ELSE LET top == a[Len(a)]
             sh  == Len(a) - Len(m)
             a2  == Tuple([i \in 1..(Len(a) - 1) |->
                        IF i > sh THEN a[i] - top * m[i - sh] ELSE a[i]])
         IN  PolyQuo(a2, m) \o <<top>>

RECURSIVE Phi(_)
RECURSIVE DivAll(_, _, _)
DivAll(p, n, d) ==
    IF d >= n THEN p
    ELSE LET q == IF n % d = 0 THEN PolyQuo(p, Phi(d)) ELSE p
         IN  After(q, DivAll(q, n, d + 1))

Phi(n) ==
    DivAll(Tuple([i \in 1..(n + 1) |->
                    IF i = 1 THEN -1 ELSE IF i = n + 1 THEN 1 ELSE 0]),
           n, 1)

(***************************************************************************)
(* scipy.fftpack.next_fast_len: the smallest 5-smooth number >= n.         *)
(***************************************************************************)
RECURSIVE StripFactor(_, _)
StripFactor(n, p) == IF n % p = 0 THEN StripFactor(n \div p, p) ELSE n

IsRegular(n) == StripFactor(StripFactor(StripFactor(n, 2), 3), 5) = 1

RECURSIVE next_fast_len(_)
next_fast_len(n) == IF IsRegular(n) THEN n ELSE next_fast_len(n + 1)

MaxOrd == next_fast_len(2 * MaxN + 2)

PhiTab == [n \in 1..MaxOrd |-> Phi(n)]

(***************************************************************************)
(* Complex numbers of a transform of order R.                              *)
(***************************************************************************)
CxOfQ(q, R) == [n |-> Tuple([j \in 1..R |-> IF j = 1 THEN q[1] ELSE 0]), d |-> q[2]]

\* u * exp(2 pi i k / R)
CxRot(u, k) ==
    LET R == Len(u.n)
    IN  [n |-> Tuple([j \in 1..R |-> u.n[((j - 1 - k) % R) + 1]]), d |-> u.d]

CxConj(u) ==
    LET R == Len(u.n)
    IN  [n |-> Tuple([j \in 1..R |-> u.n[((R - (j - 1)) % R) + 1]]), d |-> u.d]

CxAdd(a, b) ==
    LET d == Lcm(a.d, b.d)
        fa == d \div a.d
        fb == d \div b.d
    IN  [n |-> Tuple([j \in 1..Len(a.n) |-> a.n[j] * fa + b.n[j] * fb]), d |-> d]

RECURSIVE GcdAll(_, _, _)
GcdAll(s, k, g) == IF k = 0 \/ g = 1 THEN g ELSE GcdAll(s, k - 1, Gcd(g, Abs(s[k])))

\* lowest terms: no common factor of the denominator and all coefficients
CxNorm(n, d) ==
    LET g == GcdAll(n, Len(n), d)
    IN  [n |-> Tuple([j \in 1..Len(n) |-> n[j] \div g]), d |-> d \div g]

CxMul(a, b) ==
    LET R  == Len(a.n)
        ga == GcdAll(a.n, R, b.d)
        gb == GcdAll(b.n, R, a.d)
        an == Tuple([j \in 1..R |-> a.n[j] \div ga])
        bn == Tuple([j \in 1..R |-> b.n[j] \div gb])
    IN  [n |-> Tuple([j \in 1..R |->
                  ISum([i \in 1..R |-> an[i] * bn[((j - i) % R) + 1]], R)]),
         d |-> (a.d \div gb) * (b.d \div ga)]

CxScale(u, q) ==
    LET g1 == GcdAll(u.n, Len(u.n), q[2])
        g2 == Gcd(Abs(q[1]), u.d)
    IN  [n |-> Tuple([j \in 1..Len(u.n) |-> (u.n[j] \div g1) * (q[1] \div g2)]),
         d |-> (u.d \div g2) * (q[2] \div g1)]

\* f[1] + ... + f[k], over the common denominator
CxSum(f, k) ==
    LET s == Tuple([t \in 1..k |-> f[t]])
        l == LcmAll(Tuple([t \in 1..k |-> s[t].d]), k, 1)
    IN  [n |-> Tuple([j \in 1..Len(s[1].n) |->
                  ISum([t \in 1..k |-> s[t].n[j] * (l \div s[t].d)], k)]),
         d |-> l]

\* the canonical coefficients of u: those of its remainder modulo Phi(R)
CxCanon(u) == PolyRem(u.n, PhiTab[Len(u.n)])

CxIsRational(u) == LET c == CxCanon(u) IN \A i \in 2..Len(c) : c[i] = 0

\* the value of a complex number that is a rational real
CxReal(u) == Q(CxCanon(u)[1], u.d)

(***************************************************************************)
(* torch.fft.rfft(x, n) and torch.fft.irfft(Y, n) along the time axis of   *)
(* one real signal; R is the order of the ring the bins live in (a         *)
(* multiple of n).                                                         *)
(***************************************************************************)
Pad(xs, n) == Tuple([t \in 1..n |-> IF t <= Len(xs) THEN xs[t] ELSE QInt(0)])

rfft(xs, n, R) ==
    LET p == Pad(xs, n)
    IN  Tuple([k \in 1..((n \div 2) + 1) |->
            CxSum([t \in 1..n |->
                      CxRot(CxOfQ(p[t], R), -((R \div n) * (k - 1) * (t - 1)))], n)])

irfft(Y, n, R) ==
    LET nb == (n \div 2) + 1
        bin(k) == IF k <= Len(Y) THEN Y[k] ELSE CxOfQ(QInt(0), R)
        mult(k) == IF k = 1 \/ (n % 2 = 0 /\ k = nb) THEN 1 ELSE 2
        term(k, t) ==
            LET T == CxRot(bin(k), (R \div n) * (k - 1) * (t - 1))
            IN  CxScale(CxAdd(T, CxConj(T)), <<mult(k), 2 * n>>)
    IN  Tuple([t \in 1..n |-> CxReal(CxSum([k \in 1..nb |-> term(k, t)], nb))])

(***************************************************************************)
(* conv1d_fft(x, weights): x is a batch of real signals along the time     *)
(* axis, weights one kernel shared by the batch.                           *)
(***************************************************************************)
fast_len(N, M) == next_fast_len(N + M - 1)

\* the circular rotation left out
roll_none(ys, shift) == ys

roll(ys, shift) == Tuple([i \in 1..Len(ys) |-> ys[((i - 1 - shift) % Len(ys)) + 1]])

index_select(ys, first, last) == Tuple([i \in 1..(last - first) |-> ys[first + i]])

conv_multiply(fx, fw) == Tuple([k \in 1..Len(fx) |-> CxMul(fx[k], CxConj(fw[k]))])

conv1d_fft(xs, ws) ==
    LET N  == Len(xs)
        L  == fast_len(N, Len(ws))
        fx == rfft(xs, L, L)
        fw == rfft(ws, L, L)
        fv == conv_multiply(fx, fw)
        o  == irfft(fv, L, L)
        r  == roll(o, -1)
    IN  After(fx, After(fw, After(fv, After(o, After(r,
            index_select(r, L - N, L))))))

Batch == {1, 2}

QSeqs(S, n) == [1..n -> {QInt(v) : v \in S}]

\* the signals that differ from xs at exactly one time step
Perturbed(xs) ==
    {[xs EXCEPT ![j] = QInt(v)] : j \in 1..Len(xs), v \in SignalVals} \ {xs}

InitConv ==
    /\ pc = "start"
    /\ \E N \in 1..MaxN, M \in 1..MaxN :
          /\ \E r \in QSeqs(SignalVals, N) :
                \E r2 \in Perturbed(r) : x = <<r, r2>>
          /\ weights \in QSeqs(KernelVals, M)
    /\ f_x = << >>
    /\ f_weight = << >>
    /\ f_v_weight = << >>
    /\ out = << >>
    /\ self = "conv1d_fft"
    /\ series = x
    /\ naive = FALSE
    /\ alpha = << >>
    /\ output = << >>
    /\ InitFreqUnused
    /\ InitEtsUnused

ConvL == fast_len(Len(x[1]), Len(weights))

ConvRfft ==
    /\ pc = "start"
    /\ f_x' = [b \in Batch |-> rfft(x[b], ConvL, ConvL)]
    /\ f_weight' = rfft(weights, ConvL, ConvL)
    /\ pc' = "transformed"
    /\ UNCHANGED <<x, weights, f_v_weight, out, mhesaVars, freqVars, etsVars>>

ConvMultiply ==
    /\ pc = "transformed"
    /\ f_v_weight' = [b \in Batch |-> conv_multiply(f_x[b], f_weight)]
    /\ pc' = "multiplied"
    /\ UNCHANGED <<x, weights, f_x, f_weight, out, mhesaVars, freqVars, etsVars>>

ConvIrfft ==
    /\ pc = "multiplied"
    /\ out' = [b \in Batch |-> irfft(f_v_weight[b], ConvL, ConvL)]
    /\ pc' = "inverted"
    /\ UNCHANGED <<x, weights, f_x, f_weight, f_v_weight, mhesaVars, freqVars, etsVars>>

ConvRoll ==
    /\ pc = "inverted"
    /\ out' = [b \in Batch |-> roll(out[b], -1)]
    /\ pc' = "rolled"
    /\ UNCHANGED <<x, weights, f_x, f_weight, f_v_weight, mhesaVars, freqVars, etsVars>>

ConvSelect ==
    /\ pc = "rolled"
    /\ out' = [b \in Batch |-> index_select(out[b], ConvL - Len(x[b]), ConvL)]
    /\ pc' = "done"
    /\ UNCHANGED <<x, weights, f_x, f_weight, f_v_weight, mhesaVars, freqVars, etsVars>>

NextConv == ConvRfft \/ ConvMultiply \/ ConvIrfft \/ ConvRoll \/ ConvSelect

SpecConv == InitConv /\ [][NextConv]_vars

(***************************************************************************)
(* Tensor helpers.  A tensor is a nested sequence, outermost axis first.   *)
(***************************************************************************)
arange(n) == Tuple([i \in 1..n |-> i - 1])

\* the powers left in ascending order
flip_none(s) == s

flip(s) == Tuple([i \in 1..Len(s) |-> s[Len(s) - i + 1]])

T1(A, f(_)) == Tuple([a \in 1..A |-> f(a)])
T2(A, B, f(_, _)) == T1(A, LAMBDA a : T1(B, LAMBDA b : f(a, b)))
T3(A, B, C, f(_, _, _)) == T1(A, LAMBDA a : T2(B, C, LAMBDA b, c : f(a, b, c)))
T4(A, B, C, D, f(_, _, _, _)) ==
    T1(A, LAMBDA a : T3(B, C, D, LAMBDA b, c, d : f(a, b, c, d)))

\* nn.Linear on the last axis of one vector
Linear(layer, v) ==
    T1(Len(layer.bias), LAMBDA j :
        QAdd(QSum([c \in 1..Len(v) |-> QMul(layer.weight[j][c], v[c])], Len(v)),
             layer.bias[j]))

\* nn.Dropout with the default probability 0.
dropout(v) == v

\* sigmoid of the parameter ln(a / b), held as the odds <<a, b>>
sigmoid(odds) == Q(odds[1], odds[1] + odds[2])

One == QInt(1)

(***************************************************************************)
(* MHESA.forward, statement by statement.                                  *)
(***************************************************************************)
project_in(m, xs) ==
    T2(Len(xs), Len(xs[1]), LAMBDA b, t : Linear(m.project_in, xs[b][t]))

\* rearrange 'b n (h d) -> b h n d'
split_heads(m, xs) ==
    T4(Len(xs), m.heads, Len(xs[1]), m.dim_head,
       LAMBDA b, h, t, d : xs[b][t][(h - 1) * m.dim_head + d])

\* cat the initial state in front, then x[:, :, 1:] - x[:, :, :-1]
temporal_difference(m, xs) ==
    LET c == T2(Len(xs), m.heads, LAMBDA b, h : <<m.initial_state[h]>> \o xs[b][h])
    IN  T4(Len(xs), m.heads, Len(xs[1][1]), m.dim_head,
           LAMBDA b, h, t, d : QSub(c[b][h][t + 1][d], c[b][h][t][d]))

\* alpha * (1 - alpha) ** flip(arange): one kernel
decay_weights(a, n) ==
    LET powers == flip(arange(n))
    IN  T1(n, LAMBDA k : QMul(a, QPow(QSub(One, a), powers[k])))

mhesa_weights(al, n) == T1(Len(al), LAMBDA h : decay_weights(al[h], n))

\* naive_Aes: gather with the circular offset, tril, einsum
\* the circular offset without the + 1
naive_indices_unshifted(n, t, l) == (arange(n)[l] - arange(n)[t]) % n

naive_indices(n, t, l) == (arange(n)[l] - (arange(n)[t] + 1)) % n

tril(W) ==
    T2(Len(W), Len(W[1]), LAMBDA t, l : IF l <= t THEN W[t][l] ELSE QInt(0))

naive_Aes(m, xs, ws) ==
    LET n == Len(xs[1][1])
        W == T1(m.heads, LAMBDA h :
                tril(dropout(T2(n, n, LAMBDA t, l : ws[h][naive_indices(n, t, l) + 1]))))
    IN  T4(Len(xs), m.heads, n, m.dim_head, LAMBDA b, h, t, d :
            QSum([l \in 1..n |-> QMul(xs[b][h][l][d], W[h][t][l])], n))

\* conv1d_fft on a b h n d tensor with an h n kernel (dim = -2)
conv1d_fft_heads(m, xs, ws) ==
    LET n == Len(xs[1][1])
        C == T3(Len(xs), m.heads, m.dim_head, LAMBDA b, h, d :
                conv1d_fft(T1(n, LAMBDA t : xs[b][h][t][d]), ws[h]))
    IN  After(C, T4(Len(xs), m.heads, n, m.dim_head, LAMBDA b, h, t, d : C[b][h][d][t]))

Aes(m, xs, ws, nv) == IF nv THEN naive_Aes(m, xs, ws) ELSE conv1d_fft_heads(m, xs, ws)

\* (1 - alpha) ** (arange + 1), times the initial state, added to the output
add_init_output(m, al, o) ==
    LET n == Len(o[1][1])
        init_weight == T2(m.heads, n, LAMBDA h, t :
                          QPow(QSub(One, al[h]), arange(n)[t] + 1))
    IN  T4(Len(o), m.heads, n, m.dim_head, LAMBDA b, h, t, d :
            QAdd(o[b][h][t][d], QMul(init_weight[h][t], m.initial_state[h][d])))

\* rearrange 'b h n d -> b n (h d)'
merge_heads(m, o) ==
    T3(Len(o), Len(o[1][1]), m.heads * m.dim_head, LAMBDA b, t, j :
        o[b][((j - 1) \div m.dim_head) + 1][t][((j - 1) % m.dim_head) + 1])

project_out(m, o) ==
    T2(Len(o), Len(o[1]), LAMBDA b, t : Linear(m.project_out, o[b][t]))

MHESA_forward(m, xs, nv) ==
    LET n  == Len(xs[1])
        p  == project_in(m, xs)
        s  == split_heads(m, p)
        xd == temporal_difference(m, s)
        al == T1(m.heads, LAMBDA h : sigmoid(m.alpha[h]))
        ws == mhesa_weights(al, n)
        o  == Aes(m, xd, ws, nv)
        a  == add_init_output(m, al, o)
        g  == merge_heads(m, a)
    IN  After(p, After(s, After(xd, After(ws, After(o, After(a, After(g,
            project_out(m, g))))))))

(***************************************************************************)
(* The parameters MHESA.__init__ creates, drawn from small sets.           *)
(***************************************************************************)
MaxHeads == 2

DimHeads == {1, 2}

AlphaOdds == {<<1, 1>>, <<1, 2>>}

\* an nn.Linear(nin, nout) whose weight and bias follow from the pair wb
LinearPreset(nin, nout, wb) ==
    [weight |-> T2(nout, nin, LAMBDA j, c : QInt(wb[1] + ((j + c) % 2))),
     bias   |-> T1(nout, LAMBDA j : QInt(wb[2] * j))]

Presets == {<<1, 0>>, <<-2, 1>>}

InitialStates(h, d) ==
    {T2(h, d, LAMBDA i, j : QInt(s * (i + j - 1))) : s \in {0, 1}}

Alphas(h) ==
    {T1(h, LAMBDA i : IF i % 2 = 1 THEN a ELSE <<a[2], a[1] + a[2]>>) : a \in AlphaOdds}

InitMHESA ==
    /\ pc = "forward"
    /\ \E h \in 1..MaxHeads, d \in DimHeads, n \in 1..MaxN :
          /\ \E s \in InitialStates(h, d), a \in Alphas(h), wb \in Presets :
                self = [heads |-> h, dim_head |-> d, initial_state |-> s,
                        alpha |-> a,
                        project_in |-> LinearPreset(1, h * d, wb),
                        project_out |-> LinearPreset(h * d, 1, <<-wb[1], 1 - wb[2]>>)]
          /\ \E r \in QSeqs(SignalVals, n) : series = <<T1(n, LAMBDA t : <<r[t]>>)>>
    /\ naive \in BOOLEAN
    /\ x = series
    /\ weights = << >>
    /\ alpha = << >>
    /\ output = << >>
    /\ f_x = << >>
    /\ f_weight = << >>
    /\ f_v_weight = << >>
    /\ out = << >>
    /\ InitFreqUnused
    /\ InitEtsUnused

MhesaProjectIn ==
    /\ pc = "forward"
    /\ x' = split_heads(self, project_in(self, x))
    /\ pc' = "projected"
    /\ UNCHANGED <<weights, convVars, self, series, naive, alpha, output, freqVars, etsVars>>

MhesaDifference ==
    /\ pc = "projected"
    /\ x' = temporal_difference(self, x)
    /\ pc' = "differenced"
    /\ UNCHANGED <<weights, convVars, self, series, naive, alpha, output, freqVars, etsVars>>

MhesaWeights ==
    /\ pc = "differenced"
    /\ alpha' = T1(self.heads, LAMBDA h : sigmoid(self.alpha[h]))
    /\ weights' = mhesa_weights(alpha', Len(series[1]))
    /\ pc' = "weighted"
    /\ UNCHANGED <<x, convVars, self, series, naive, output, freqVars, etsVars>>

MhesaNaive ==
    /\ pc = "weighted"
    /\ naive
    /\ output' = naive_Aes(self, x, weights)
    /\ pc' = "smoothed"
    /\ UNCHANGED <<x, weights, convVars, self, series, naive, alpha, freqVars, etsVars>>

MhesaFft ==
    /\ pc = "weighted"
    /\ ~naive
    /\ output' = conv1d_fft_heads(self, x, weights)
    /\ pc' = "smoothed"
    /\ UNCHANGED <<x, weights, convVars, self, series, naive, alpha, freqVars, etsVars>>

MhesaInitOutput ==
    /\ pc = "smoothed"
    /\ output' = add_init_output(self, alpha, output)
    /\ pc' = "anchored"
    /\ UNCHANGED <<x, weights, convVars, self, series, naive, alpha, freqVars, etsVars>>

MhesaProjectOut ==
    /\ pc = "anchored"
    /\ output' = project_out(self, merge_heads(self, output))
    /\ pc' = "returned"
    /\ UNCHANGED <<x, weights, convVars, self, series, naive, alpha, freqVars, etsVars>>

NextMHESA ==
    \/ MhesaProjectIn
    \/ MhesaDifference
    \/ MhesaWeights
    \/ MhesaNaive
    \/ MhesaFft
    \/ MhesaInitOutput
    \/ MhesaProjectOut

SpecMHESA == InitMHESA /\ [][NextMHESA]_vars

(***************************************************************************)
(* C1: MHESA.forward returns the same output with naive = True and with    *)
(* naive = False, for every input, number of heads and parameter values.   *)
(***************************************************************************)
C1_NaiveEqualsFft ==
    pc = "returned" => output = MHESA_forward(self, series, ~naive)

C1_Witness ==
    /\ pc = "returned"
    /\ naive
    /\ self.heads = 2
    /\ Len(series[1]) = 4
    /\ \E t \in 1..4 : output[1][t][1] # self.project_out.bias[1]

(***************************************************************************)
(* FrequencyAttention.forward on a b n d tensor, statement by statement.   *)
(* Bins are numbered from 1.                                               *)
(***************************************************************************)
QLe(a, b) == a[1] * b[2] <= b[1] * a[2]

\* the ring that holds the bins of rfft over n samples and the twiddles of
\* the irfft over 2 * (n \div 2) samples that follows
FreqOrd(n) == IF n = 1 THEN 1 ELSE Lcm(n, 2 * (n \div 2))

CxZero(R) == CxOfQ(QInt(0), R)

CxEq(a, b) ==
    CxCanon(CxScale(a, <<b.d, 1>>)) = CxCanon(CxScale(b, <<a.d, 1>>))

\* torch.fft.rfft(x, dim = 1)
freq_rfft(xs) ==
    LET n == Len(xs[1])
        D == Len(xs[1][1])
        F == T2(Len(xs), D, LAMBDA b, d :
                rfft(T1(n, LAMBDA t : xs[b][t][d]), n, FreqOrd(n)))
    IN  T3(Len(xs), (n \div 2) + 1, D, LAMBDA b, k, d : F[b][d][k])

\* freqs.abs(), held as its square: topk orders squares as it orders
\* magnitudes
freq_abs(fs) ==
    T3(Len(fs), Len(fs[1]), Len(fs[1][1]), LAMBDA b, k, d :
        CxReal(CxMul(fs[b][k][d], CxConj(fs[b][k][d]))))

Injective(s) == \A i, j \in DOMAIN s : s[i] = s[j] => i = j

Range(s) == {s[i] : i \in DOMAIN s}

\* every answer torch.topk may give for one column: k distinct bins, largest
\* first, no bin left out larger than one taken; ties in any order
TopKs(col, k) ==
    {s \in [1..k -> 1..Len(col)] :
        /\ Injective(s)
        /\ \A i \in 1..(k - 1) : QLe(col[s[i + 1]], col[s[i]])
        /\ \A j \in (1..Len(col)) \ Range(s) : QLe(col[j], col[s[k]])}

topk(am, k) ==
    LET B == Len(am)
        D == Len(am[1][1])
        col(b, d) == T1(Len(am[b]), LAMBDA i : am[b][i][d])
        cells == (1..B) \X (1..D)
        picks == {f \in [cells -> [1..k -> 1..Len(am[1])]] :
                     \A c \in cells : f[c] \in TopKs(col(c[1], c[2]), k)}
    IN  {T3(B, k, D, LAMBDA b, j, d : f[<<b, d>>][j]) : f \in picks}

\* torch.zeros_like(src).scatter(1, index, src):
\* result[b][index[b][j][d]][d] = src[b][j][d]
scatter(index, src) ==
    LET R == Len(src[1][1][1].n)
        hit(b, k, d) == {j \in 1..Len(index[b]) : index[b][j][d] = k}
    IN  T3(Len(src), Len(src[1]), Len(src[1][1]), LAMBDA b, k, d :
            IF hit(b, k, d) = {} THEN CxZero(R)
            ELSE src[b][CHOOSE j \in hit(b, k, d) : TRUE][d])

\* torch.fft.irfft(topk_freqs, dim = 1): 2 * (bins - 1) samples
freq_irfft(fs) ==
    LET m == 2 * (Len(fs[1]) - 1)
        D == Len(fs[1][1])
        R == Len(fs[1][1][1].n)
        Y == T2(Len(fs), D, LAMBDA b, d :
                irfft(T1(Len(fs[b]), LAMBDA k : fs[b][k][d]), m, R))
    IN  T3(Len(fs), m, D, LAMBDA b, t, d : Y[b][d][t])

MaxK == 2

FreqLens == {1, 2, 3, 4}

FreqVals == {-1, 2}

Channels == {1, 2}

InitFreq ==
    /\ pc = "forward"
    /\ \E k \in 1..MaxK : self = [K |-> k]
    /\ \E n \in FreqLens, D \in Channels :
          \E r \in [(1..n) \X (1..D) -> FreqVals] :
              series = <<T2(n, D, LAMBDA t, d : QInt(r[<<t, d>>]))>>
    /\ x = series
    /\ calls = 1
    /\ freqs = << >>
    /\ amp = << >>
    /\ topk_amp_indices = << >>
    /\ topk_freqs = << >>
    /\ weights = << >>
    /\ alpha = << >>
    /\ output = << >>
    /\ naive = FALSE
    /\ f_x = << >>
    /\ f_weight = << >>
    /\ f_v_weight = << >>
    /\ out = << >>
    /\ InitEtsUnused

FreqRfft ==
    /\ pc = "forward"
    /\ freqs' = freq_rfft(x)
    /\ amp' = dropout(freq_abs(freqs'))
    /\ pc' = "amplitudes"
    /\ UNCHANGED <<x, weights, convVars, mhesaVars, topk_amp_indices, topk_freqs, calls, etsVars>>

\* amp.topk(k = K, dim = 1)
FreqTopk ==
    /\ pc = "amplitudes"
    /\ self.K <= Len(amp[1])
    /\ topk_amp_indices' \in topk(amp, self.K)
    /\ pc' = "selected"
    /\ UNCHANGED <<x, weights, convVars, mhesaVars, freqs, amp, topk_freqs, calls, etsVars>>

\* topk raises when K exceeds the number of bins
FreqTopkRaises ==
    /\ pc = "amplitudes"
    /\ self.K > Len(amp[1])
    /\ pc' = "raised"
    /\ UNCHANGED <<x, weights, convVars, mhesaVars, freqVars, etsVars>>

FreqScatter ==
    /\ pc = "selected"
    /\ topk_freqs' = scatter(topk_amp_indices, freqs)
    /\ pc' = "scattered"
    /\ UNCHANGED <<x, weights, convVars, mhesaVars, freqs, amp, topk_amp_indices, calls, etsVars>>

FreqIrfft ==
    /\ pc = "scattered"
    /\ Len(topk_freqs[1]) > 1
    /\ output' = freq_irfft(topk_freqs)
    /\ pc' = "returned"
    /\ UNCHANGED <<x, weights, convVars, self, series, naive, alpha, freqVars, etsVars>>

\* irfft raises on a one-bin spectrum: it would return 0 samples
FreqIrfftRaises ==
    /\ pc = "scattered"
    /\ Len(topk_freqs[1]) = 1
    /\ pc' = "raised"
    /\ UNCHANGED <<x, weights, convVars, mhesaVars, freqVars, etsVars>>

\* the result is handed to FrequencyAttention a second time
FreqAgain ==
    /\ pc = "returned"
    /\ calls = 1
    /\ x' = output
    /\ calls' = 2
    /\ pc' = "forward"
    /\ UNCHANGED <<weights, convVars, mhesaVars, freqs, amp, topk_amp_indices, topk_freqs, etsVars>>

NextFreq ==
    \/ FreqRfft
    \/ FreqTopk
    \/ FreqTopkRaises
    \/ FreqScatter
    \/ FreqIrfft
    \/ FreqIrfftRaises
    \/ FreqAgain

SpecFreq == InitFreq /\ [][NextFreq]_vars

(***************************************************************************)
(* C3: the spectrum handed to the inverse transform holds, at each of the  *)
(* K bins of largest magnitude, the input spectrum's own value at that     *)
(* bin, and zero at every other bin.                                       *)
(***************************************************************************)
Taken(b, d) == {topk_amp_indices[b][j][d] : j \in 1..self.K}

C3_TopKKeepsOwnBins ==
    pc = "scattered" =>
        \A b \in 1..Len(freqs) : \A k \in 1..Len(freqs[b]) :
            \A d \in 1..Len(freqs[b][k]) :
                IF k \in Taken(b, d)
                THEN CxEq(topk_freqs[b][k][d], freqs[b][k][d])
                ELSE CxEq(topk_freqs[b][k][d], CxZero(1))

\* x = [-1, 2], K = 1: the largest bin is bin 1 with value -3, and the
\* spectrum handed on holds there the value 1 of bin 0
C3_Diverges ==
    /\ pc = "scattered"
    /\ calls = 1
    /\ self.K = 1
    /\ series = <<(<<(<<QInt(-1)>>), (<<QInt(2)>>)>>)>>
    /\ topk_amp_indices = <<(<<(<<2>>)>>)>>
    /\ CxEq(freqs[1][2][1], CxOfQ(QInt(-3), 2))
    /\ CxEq(topk_freqs[1][2][1], CxOfQ(QInt(1), 2))

(***************************************************************************)
(* C4: FrequencyAttention is idempotent: applied to its own output with    *)
(* the same K it returns that output.                                      *)
(***************************************************************************)
C4_Idempotent == (pc = "returned" /\ calls = 2) => output = x

\* x = [-1, 2], K = 1: the first pass returns [1/2, -1/2], the second zeros
C4_Diverges ==
    /\ pc = "returned"
    /\ calls = 2
    /\ self.K = 1
    /\ series = <<(<<(<<QInt(-1)>>), (<<QInt(2)>>)>>)>>
    /\ x = <<(<<(<<(<<1, 2>>)>>), (<<(<<-1, 2>>)>>)>>)>>
    /\ output = <<(<<(<<QInt(0)>>), (<<QInt(0)>>)>>)>>

(***************************************************************************)
(* C5: whenever FrequencyAttention.forward returns, its output is as long  *)
(* along the time axis as its input, for even and odd lengths.             *)
(***************************************************************************)
C5_LengthKept ==
    pc = "returned" => \A b \in 1..Len(x) : Len(output[b]) = Len(x[b])

\* three samples in, two samples out
C5_Diverges ==
    /\ pc = "returned"
    /\ calls = 1
    /\ Len(series[1]) = 3
    /\ Len(output[1]) = 2

(***************************************************************************)
(* The assembly layers of ETSFormer, for one model channel (model_dim =    *)
(* 1), where LayerNorm is exact: the centred value of a lone channel is 0. *)
(***************************************************************************)
None == [module |-> "None"]

exists(val) == val.module # "None"

TSub(a, b) ==
    T3(Len(a), Len(a[1]), Len(a[1][1]), LAMBDA b0, t, d : QSub(a[b0][t][d], b[b0][t][d]))

TAdd(a, b) ==
    T3(Len(a), Len(a[1]), Len(a[1][1]), LAMBDA b0, t, d : QAdd(a[b0][t][d], b[b0][t][d]))

\* nn.Linear on the last axis of a b n d tensor
TLinear(layer, xs) == T2(Len(xs), Len(xs[1]), LAMBDA b, t : Linear(layer, xs[b][t]))

\* InputEmbedding: Conv1d over time, kernel_size taps, padding kernel_size // 2
InputEmbedding(emb, xs) ==
    LET n == Len(xs[1])
        ks == Len(emb.weight[1][1])
        tap(b, t, c) == IF t >= 1 /\ t <= n THEN xs[b][t][c] ELSE QInt(0)
    IN  T3(Len(xs), n, Len(emb.bias), LAMBDA b, t, j :
            QAdd(emb.bias[j],
                 QSum([i \in 1..(Len(xs[1][1]) * ks) |->
                          LET c == ((i - 1) \div ks) + 1
                              k == ((i - 1) % ks) + 1
                          IN  QMul(emb.weight[j][c][k],
                                   tap(b, t + k - 1 - (ks \div 2), c))],
                      Len(xs[1][1]) * ks)))

Mean(v) == QMul(QSum(v, Len(v)), <<1, Len(v)>>)

\* nn.LayerNorm on the last axis: (v - mean) / sqrt(var + eps) * weight + bias
LayerNorm(ln, v) ==
    T1(Len(v), LAMBDA j :
        IF QSub(v[j], Mean(v)) = QInt(0) THEN ln.bias[j] ELSE "irrational")

TLayerNorm(ln, xs) == T2(Len(xs), Len(xs[1]), LAMBDA b, t : LayerNorm(ln, xs[b][t]))

\* FeedForwardBlock.forward: norm(x + ff(x)); ff(x) is some real per
\* channel, and the norm of a lone channel does not read it
FeedForwardBlock(blk, xs) ==
    T2(Len(xs), Len(xs[1]), LAMBDA b, t :
        IF Len(xs[b][t]) = 1 THEN <<blk.norm.bias[1]>> ELSE "irrational")

\* every output FrequencyAttention.forward may return
FrequencyAttention(fa, xs) ==
    LET fs == freq_rfft(xs)
    IN  {freq_irfft(scatter(idx, fs)) : idx \in topk(dropout(freq_abs(fs)), fa.K)}

\* FrequencyAttention.forward returns, and its result subtracts from z
FreqReturns(fa, xs) ==
    /\ fa.K <= (Len(xs[1]) \div 2) + 1
    /\ Len(xs[1]) > 1
    /\ 2 * (Len(xs[1]) \div 2) = Len(xs[1])

\* conv1d_fft on a b n d tensor with a kernel of n weights (dim = -2)
conv1d_fft_series(xs, ws) ==
    LET n == Len(xs[1])
        C == T2(Len(xs), Len(xs[1][1]), LAMBDA b, d :
                conv1d_fft(T1(n, LAMBDA t : xs[b][t][d]), ws))
    IN  After(C, T3(Len(xs), n, Len(xs[1][1]), LAMBDA b, t, d : C[b][d][t]))

\* Level.forward(x, latent_growth, latent_seasonal): its locals and result
Level_forward(lv, xs, latent_growth_, latent_seasonal_) ==
    LET n == Len(xs[1])
        al == sigmoid(lv.alpha)
        seasonal == TLinear(lv.to_seasonal, latent_seasonal_)
        Aes_weights == decay_weights(al, n)
        residual == TSub(xs, seasonal)
        seasonal_normalized_term == conv1d_fft_series(residual, Aes_weights)
        growth == TLinear(lv.to_growth, latent_growth_)
        growth_term == conv1d_fft_series(xs, Aes_weights)
    IN  After(seasonal, After(Aes_weights, After(residual,
        After(seasonal_normalized_term, After(growth, After(growth_term,
            [x |-> xs, alpha |-> al, seasonal |-> seasonal,
             Aes_weights |-> Aes_weights,
             seasonal_normalized_term |-> seasonal_normalized_term,
             growth |-> growth, growth_term |-> growth_term,
             result |-> TAdd(seasonal_normalized_term, growth_term)]))))))

\* LevelStack.forward: repeat(x[:, -1], 'b d -> b n d', n = num_steps_forecast)
\* the first time step repeated instead of the last
LevelStack_first(xs, steps) ==
    T3(Len(xs), steps, Len(xs[1][1]), LAMBDA b, i, d : xs[b][1][d])

LevelStack(xs, steps) ==
    T3(Len(xs), steps, Len(xs[1][1]), LAMBDA b, i, d : xs[b][Len(xs[b])][d])

(***************************************************************************)
(* ETSFormer.__init__: the encoder layers, their parameters set by a seed. *)
(***************************************************************************)
LinearSeed(nin, nout, sd) ==
    [weight |-> T2(nout, nin, LAMBDA j, c : QInt(IF (j + c + sd) % 2 = 0 THEN 1 ELSE -2)),
     bias   |-> T1(nout, LAMBDA j : QInt((j + sd) % 2))]

MHESASeed(sd) ==
    [heads |-> sd, dim_head |-> 1,
     initial_state |-> T2(sd, 1, LAMBDA i, j : QInt(i - 1)),
     alpha |-> T1(sd, LAMBDA i : IF i = 1 THEN <<1, 3>> ELSE <<1, 1>>),
     project_in |-> LinearSeed(1, sd, sd), project_out |-> LinearSeed(sd, 1, sd + 1)]

is_last_layer(i, layers) == (i - 1) = layers

EncoderLayer(i, layers, time_features, K, sd) ==
    [freq_attn |-> [K |-> K],
     mhes_attn |-> MHESASeed(sd),
     attn_post_ln |-> [bias |-> <<QInt(i)>>],
     ff_block |-> IF ~is_last_layer(i, layers)
                  THEN [module |-> "FeedForwardBlock",
                        norm |-> [bias |-> <<QInt(-i - 1)>>]]
                  ELSE None,
     level |-> [alpha |-> IF (sd + i) % 2 = 0 THEN <<1, 1>> ELSE <<3, 1>>,
                to_growth |-> LinearSeed(1, time_features, sd + i),
                to_seasonal |-> LinearSeed(1, time_features, sd + i + 1)]]

\* range(layers) counts from 0
ETSFormer(time_features, layers, K, sd) ==
    [time_features |-> time_features, layers |-> layers,
     embed |-> [weight |-> <<T2(time_features, 3, LAMBDA c, k :
                                 QInt(IF (c + k + sd) % 3 = 0 THEN 0 ELSE k - 2))>>,
                bias |-> <<QInt(sd - 1)>>],
     encoder_layers |-> T1(layers, LAMBDA i :
                           EncoderLayer(i - 1, layers, time_features, K, sd))]

MaxLayers == 2
MaxSteps == 2

Seeds == {1, 2}
Shapes == {<<1, 1>>, <<1, 2>>, <<2, 1>>}
EtsLens == {2, 3, 4}

\* the input tensors have at most MaxCells entries
MaxCells == 4

InitETS ==
    /\ pc = "embed"
    /\ \E sh \in Shapes, n \in EtsLens :
          /\ sh[1] * n * sh[2] <= MaxCells
          /\ \E r \in [(1..sh[1]) \X (1..n) \X (1..sh[2]) -> SignalVals] :
                series = T3(sh[1], n, sh[2], LAMBDA b, t, d : QInt(r[<<b, t, d>>]))
          /\ \E layers \in 1..MaxLayers, K \in 1..MaxK, sd \in Seeds :
                self = ETSFormer(sh[2], layers, K, sd)
    /\ num_steps_forecast = 0
    /\ x = series
    /\ z = << >>
    /\ ind = 0
    /\ latent_seasonal = << >>
    /\ latent_growth = << >>
    /\ level = << >>
    /\ weights = << >>
    /\ alpha = << >>
    /\ output = << >>
    /\ naive = FALSE
    /\ f_x = << >>
    /\ f_weight = << >>
    /\ f_v_weight = << >>
    /\ out = << >>
    /\ InitFreqUnused

EtsEmbed ==
    /\ pc = "embed"
    /\ z' = InputEmbedding(self.embed, x)
    /\ pc' = "encoder"
    /\ UNCHANGED <<x, weights, convVars, mhesaVars, freqVars, ind, latent_seasonal,
                   latent_growth, num_steps_forecast, level>>

\* the loop over self.encoder_layers, statement by statement
EtsSeasonal ==
    /\ pc = "encoder"
    /\ ind < Len(self.encoder_layers)
    /\ FreqReturns(self.encoder_layers[ind + 1].freq_attn, z)
    /\ latent_seasonal' \in FrequencyAttention(self.encoder_layers[ind + 1].freq_attn, z)
    /\ z' = TSub(z, latent_seasonal')
    /\ pc' = "seasonal"
    /\ UNCHANGED <<x, weights, convVars, mhesaVars, freqVars, ind, latent_growth,
                   num_steps_forecast, level>>

\* topk or irfft raises, or z - latent_seasonal does not broadcast
EtsSeasonalRaises ==
    /\ pc = "encoder"
    /\ ind < Len(self.encoder_layers)
    /\ ~FreqReturns(self.encoder_layers[ind + 1].freq_attn, z)
    /\ pc' = "raised"
    /\ UNCHANGED <<x, weights, convVars, mhesaVars, freqVars, etsVars>>

EtsGrowth ==
    /\ pc = "seasonal"
    /\ latent_growth' = MHESA_forward(self.encoder_layers[ind + 1].mhes_attn, z, FALSE)
    /\ z' = TSub(z, latent_growth')
    /\ pc' = "growth"
    /\ UNCHANGED <<x, weights, convVars, mhesaVars, freqVars, ind, latent_seasonal,
                   num_steps_forecast, level>>

EtsNorm ==
    /\ pc = "growth"
    /\ LET l  == self.encoder_layers[ind + 1]
           zn == TLayerNorm(l.attn_post_ln, z)
       IN  z' = IF exists(l.ff_block) THEN FeedForwardBlock(l.ff_block, zn) ELSE zn
    /\ pc' = "normed"
    /\ UNCHANGED <<x, weights, convVars, mhesaVars, freqVars, ind, latent_seasonal,
                   latent_growth, num_steps_forecast, level>>

\* x = level(x, latent_seasonal, latent_growth)
EtsLevel ==
    /\ pc = "normed"
    /\ level' = Level_forward(self.encoder_layers[ind + 1].level, x,
                              latent_seasonal, latent_growth)
    /\ x' = level'.result
    /\ weights' = level'.Aes_weights
    /\ alpha' = level'.alpha
    /\ ind' = ind + 1
    /\ pc' = "encoder"
    /\ UNCHANGED <<convVars, self, series, naive, output, freqVars, z, latent_seasonal,
                   latent_growth, num_steps_forecast>>

EtsLevelStack ==
    /\ pc = "encoder"
    /\ ind = Len(self.encoder_layers)
    /\ \E steps \in 1..MaxSteps :
          /\ num_steps_forecast' = steps
          /\ output' = LevelStack(x, steps)
    /\ pc' = "returned"
    /\ UNCHANGED <<x, weights, convVars, self, series, naive, alpha, freqVars, z, ind,
                   latent_seasonal, latent_growth, level>>

NextETS ==
    \/ EtsEmbed
    \/ EtsSeasonal
    \/ EtsSeasonalRaises
    \/ EtsGrowth
    \/ EtsNorm
    \/ EtsLevel
    \/ EtsLevelStack

SpecETS == InitETS /\ [][NextETS]_vars

(***************************************************************************)
(* C2: with a kernel as long as the signal, conv1d_fft returns at every    *)
(* time step t the causal sum over s <= t of W[N-1-(t-s)] * X[s]: the last *)
(* kernel entry weights the current step, with no one-step shift.          *)
(***************************************************************************)
CausalSum(xs, ws, t) ==
    QSum([s \in 1..t |-> QMul(ws[Len(ws) - (t - s)], xs[s])], t)

C2_ClosedForm ==
    (pc = "done" /\ Len(weights) = Len(x[1])) =>
        \A b \in Batch : \A t \in 1..Len(x[b]) :
            out[b][t] = CausalSum(x[b], weights, t)

C2_Witness ==
    /\ pc = "done"
    /\ Len(weights) = 3
    /\ x[1] = <<QInt(1), QInt(1), QInt(0)>>
    /\ weights = <<QInt(1), QInt(2), QInt(1)>>
    /\ out[1] = <<QInt(1), QInt(3), QInt(3)>>

(***************************************************************************)
(* C8 as stated: for every signal length N and kernel length M, the output *)
(* at time step t depends only on X[0..t].                                 *)
(***************************************************************************)
AgreeUpTo(t) == \A s \in 1..t : x[1][s] = x[2][s]

C8_CausalAnyKernel ==
    pc = "done" =>
        \A t \in 1..Len(x[1]) : AgreeUpTo(t) => out[1][t] = out[2][t]

\* N = 2, M = 1: the signals [0, 0] and [0, 1] agree at time step 0 and
\* their outputs differ there
C8_Diverges ==
    /\ pc = "done"
    /\ x = <<(<<QInt(0), QInt(0)>>), (<<QInt(0), QInt(1)>>)>>
    /\ weights = <<QInt(1)>>
    /\ out[1][1] = QInt(0)
    /\ out[2][1] = QInt(1)

C7_SeasonalSubtracted ==
    (pc = "encoder" /\ ind >= 1) =>
        level.seasonal_normalized_term =
            conv1d_fft_series(
                TSub(level.x,
                     TLinear(self.encoder_layers[ind].level.to_seasonal,
                             latent_seasonal)),
                level.Aes_weights)

\* the term smoothed is x - to_seasonal(latent_growth), and the level is
\* the same whatever the FrequencyAttention output
C7_Diverges ==
    /\ pc = "encoder"
    /\ ind = 1
    /\ latent_seasonal # latent_growth
    /\ level.seasonal =
           TLinear(self.encoder_layers[1].level.to_seasonal, latent_growth)
    /\ level.seasonal #
           TLinear(self.encoder_layers[1].level.to_seasonal, latent_seasonal)
    /\ level.growth_term = conv1d_fft_series(level.x, level.Aes_weights)
    /\ x = TAdd(level.seasonal_normalized_term, level.growth_term)

(***************************************************************************)
(* C10: the last encoder layer has no feed-forward block and every earlier *)
(* layer has one.                                                          *)
(***************************************************************************)
C10_LastLayerHasNoFeedForward ==
    \A i \in 1..Len(self.encoder_layers) :
        exists(self.encoder_layers[i].ff_block) <=> i < Len(self.encoder_layers)

\* forward has applied the feed-forward block of the last layer
C10_Diverges ==
    /\ pc = "normed"
    /\ ind + 1 = Len(self.encoder_layers)
    /\ exists(self.encoder_layers[ind + 1].ff_block)
    /\ z = FeedForwardBlock(self.encoder_layers[ind + 1].ff_block, z)
    /\ z # TLayerNorm(self.encoder_layers[ind + 1].attn_post_ln, z)

(***************************************************************************)
(* MHESA.forward and ETSFormer.forward side by side: the two places that   *)
(* build a smoothing kernel.                                               *)
(***************************************************************************)
InitKernel == InitMHESA \/ InitETS

NextKernel == NextMHESA \/ NextETS

SpecKernel == InitKernel /\ [][NextKernel]_vars

(***************************************************************************)
(* C9: the kernel of MHESA.forward (per head) and of Level.forward has     *)
(* entry alpha * (1 - alpha)^(n-1-k) at time index k in 0..n-1; for alpha  *)
(* = 1/2 and n = 4 it is [1/16, 1/8, 1/4, 1/2].                            *)
(***************************************************************************)
IsDecayKernel(ws, a, n) ==
    /\ Len(ws) = n
    /\ \A k \in 1..n : ws[k] = QMul(a, QPow(QSub(One, a), n - k))
    /\ (a = <<1, 2>> /\ n = 4) => ws = <<(<<1, 16>>), (<<1, 8>>), (<<1, 4>>), (<<1, 2>>)>>

InMHESA == "heads" \in DOMAIN self

C9_DecayKernel ==
    /\ (InMHESA /\ pc = "weighted") =>
          \A h \in 1..self.heads : IsDecayKernel(weights[h], alpha[h], Len(series[1]))
    /\ (~InMHESA /\ pc = "encoder" /\ ind >= 1) =>
          /\ IsDecayKernel(level.Aes_weights, level.alpha, Len(series[1]))
          /\ weights = level.Aes_weights

C9_Witness ==
    /\ InMHESA
    /\ pc = "weighted"
    /\ self.heads = 2
    /\ Len(series[1]) = 4
    /\ alpha[1] = <<1, 2>>
    /\ weights[1] = <<(<<1, 16>>), (<<1, 8>>), (<<1, 4>>), (<<1, 2>>)>>

====
